---- MODULE Spec2Model ----
(***************************************************************************)
(* plex-radio: the /radio streaming loop (stream_radio), its cleanup guard *)
(* (SessionGuard), the upstream request builder (prepare_track_request),   *)
(* the /now-playing and /search accessors and the startup of main, over    *)
(* the catalog and the two shared stores (AppState.tracks, .sessions,      *)
(* .history).                                                              *)
(*                                                                         *)
(* Time is kept relative: a timestamp is stored as its age in              *)
(* milliseconds, and Tick lets one second pass for every timer at once.    *)
(***************************************************************************)
EXTENDS Integers, Sequences, FiniteSets, TLC

\* ---------------------------------------------------------------- bounds
MaxPlays == 3            \* successful track starts explored per client id
MaxSharedPlays == 2      \* the same, with two connections
MaxLongPlays == 11       \* the same, where the history limit is passed
MaxBytes == 1024         \* bytes relayed per track before the upstream ends
MaxElapsedMs == 2000     \* stream_start.elapsed() is tracked up to this age
MaxAgeMs == 3000         \* started_at.elapsed() is tracked up to this age
MaxQueryLen == 3         \* characters in a search query
LibrarySize == 53        \* tracks in the library that is searched

\* ------------------------------------------------------ program constants
None == "none"               \* Option::None of a string
Absent == [absent |-> TRUE]  \* Option::None of a record: no entry, no request
NoIndex == -1                \* current_track_index: None
Unresolved == [kind |-> "unresolved"]   \* no metadata call made in this iteration

HISTORY_LIMIT == 10      \* list.len() > 10
BACKOFF_MS == 5000       \* Duration::from_secs(5)
MIN_BYTES == 1024        \* bytes_sent < 1024
MIN_STREAM_MS == 2000    \* Duration::from_secs(2)
MS_PER_SEC == 1000       \* offset_ms / 1000
MIN_QUERY_LEN == 2       \* query.len() < 2
SEARCH_LIMIT == 50       \* .take(50)

\* ------------------------------------------------------------ input sets
Conns == {1, 2}
SessionParams == {"none", "s1"}            \* ?session= values ("none": omitted)
GeneratedIds == {"radio-1"}               \* format!("radio-{:x}", random u64)
SessionIds == (SessionParams \ {"none"}) \cup GeneratedIds
\* /now-playing?session= values: the ids in use, "" (omitted), an unknown id
QueryIds == SessionIds \cup {"", "s9"}
ClientParams == {"none", "c1"}            \* ?client_id= values
ClientIds == (ClientParams \ {"none"}) \cup {"anon"}
Catalog == <<"k1", "k2">>                 \* the library as fetched, by track key
TrackParams == {"none", "k1", "k2", "missing"}   \* ?track= values
OffsetParams == {0, 2500}                 \* ?offset= values
ChunkSizes == {512, 1024}                 \* upstream chunk lengths
\* Answers to GET /library/metadata/{key}: a transport error, a body that
\* is not the expected JSON, or the JSON with its metadata entries, each a
\* list of media, each a list of part keys.
MetaResponses ==
    {[kind |-> "error"], [kind |-> "unparsable"]}
        \cup {[kind |-> "json", metadata |-> m] :
                 m \in {<<>>, <<(<<>>)>>, <<(<<(<<>>)>>)>>,
                        <<(<<(<<"part">>)>>)>>,
                        <<(<<(<<"part", "part2">>)>>)>>}}
\* what fetch_library_tracks can return: an error, or the library's tracks
FetchResults ==
    {[ok |-> FALSE, tracks |-> <<>>]}
        \cup {[ok |-> TRUE, tracks |-> t] : t \in {<<>>, <<"k1">>, <<"k1", "k2">>}}

\* Text is a sequence of characters; "é" takes two bytes in UTF-8, the
\* others one.
Chars == {"a", "A", "b", "B", "é"}

\* ?q= values
Queries == UNION {[1 .. n -> Chars] : n \in 0 .. MaxQueryLen}

\* The library that is searched: one track by "A" called "bé", one by "B"
\* called "a", and the albums of "aa", every track called "Ab".
Library ==
    [i \in 1 .. LibrarySize |->
        IF i = 1 THEN [key |-> i, title |-> <<"b", "é">>, artist |-> <<"A">>]
        ELSE IF i = 2 THEN [key |-> i, title |-> <<"a">>, artist |-> <<"B">>]
        ELSE [key |-> i, title |-> <<"A", "b">>, artist |-> <<"a", "a">>]]

Min(a, b) == IF a < b THEN a ELSE b
Max(a, b) == IF a > b THEN a ELSE b

VARIABLES
    main,          \* where main() stands: "fetch", "loaded", "serving", "exited_*"
    tracks,        \* AppState.tracks: the catalog, by track key
    search,        \* the search_tracks handler in flight and its response
    passthrough,   \* AppState.passthrough
    sessions,      \* AppState.sessions: session id -> None | (track, started_at)
    history,       \* AppState.history: client id -> list of tracks
    sessions_lock, \* holder of the sessions mutex across steps
    history_lock,  \* holder of the history mutex across steps
    resolved,      \* per connection: the metadata answer, then its part key
    conn,          \* per connection: the locals of the stream_radio generator
    np,            \* the now_playing handler in flight and its response
    played         \* per client id: every track recorded so far, newest first

vars == <<main, tracks, search, passthrough, sessions, history, sessions_lock,
          history_lock, resolved, conn, np, played>>

\* ------------------------------------------------------------ pure parts
TrackIndexes == 0 .. (Len(tracks) - 1)

\* state.tracks[idx]
TrackAt(idx) == tracks[idx + 1]

\* state.tracks.iter().position(|t| t.key == *key)
Position(key) ==
    IF \E i \in TrackIndexes : TrackAt(i) = key
    THEN  CHOOSE i \in TrackIndexes :
             /\ TrackAt(i) = key
             /\ \A j \in TrackIndexes : TrackAt(j) = key => i <= j
    ELSE NoIndex

\* Mutant: the modulus is one short.
NextIndex_ShortModulus(i) == (i + 1) % (Len(tracks) - 1)

\* (i + 1) % state.tracks.len()
NextIndex(i) == (i + 1) % Len(tracks)

\* Mutant: the list is never cut back.
RecordHistory_NoPop(list, track) == <<track>> \o list

\* list.insert(0, track); if list.len() > 10 { list.pop(); }
RecordHistory(list, track) ==
    LET inserted == <<track>> \o list
    IN  IF Len(inserted) > HISTORY_LIMIT
        THEN SubSeq(inserted, 1, Len(inserted) - 1)
        ELSE inserted

\* Mutant: nothing is skipped.
SkipFirst_Nothing(list) == list

\* history.into_iter().skip(1).collect()
SkipFirst(list) == IF Len(list) = 0 THEN <<>> ELSE Tail(list)

\* Mutant: both conditions are required.
FinishedTooQuickly_Both(bytes_sent, elapsed_ms) ==
    bytes_sent < MIN_BYTES /\ elapsed_ms < MIN_STREAM_MS

\* bytes_sent < 1024 || stream_start.elapsed() < Duration::from_secs(2)
FinishedTooQuickly(bytes_sent, elapsed_ms) ==
    bytes_sent < MIN_BYTES \/ elapsed_ms < MIN_STREAM_MS

\* char::to_lowercase
LowerChar(ch) == IF ch = "A" THEN "a" ELSE IF ch = "B" THEN "b" ELSE ch

\* str::to_lowercase
to_lowercase(text) == [i \in 1 .. Len(text) |-> LowerChar(text[i])]

\* The bytes of a character in UTF-8.
Utf8Len(ch) == IF ch = "é" THEN 2 ELSE 1

\* str::len: the length in bytes
RECURSIVE ByteLen(_)
ByteLen(text) == IF text = <<>> THEN 0 ELSE Utf8Len(Head(text)) + ByteLen(Tail(text))

\* str::contains
Contains(text, pattern) ==
    \E i \in 0 .. (Len(text) - Len(pattern)) :
        SubSeq(text, i + 1, i + Len(pattern)) = pattern

\* Iterator::take
Take(list, n) == SubSeq(list, 1, Min(n, Len(list)))

\* search_tracks: the response body for ?q=q over the catalog
search_tracks(catalog, q) ==
    LET query == to_lowercase(q)
        Matches(t) == \/ Contains(to_lowercase(t.title), query)
                      \/ Contains(to_lowercase(t.artist), query)
    IN  IF ByteLen(query) < MIN_QUERY_LEN
        THEN <<>>
        ELSE Take(SelectSeq(catalog, Matches), SEARCH_LIMIT)

\* Mutant: a response without a part resolves to a path made from the key.
PartKey_Guessed(meta_resp) ==
    IF meta_resp.kind = "json" /\ meta_resp.metadata # <<>>
         /\ meta_resp.metadata[1] # <<>> /\ meta_resp.metadata[1][1] # <<>>
    THEN meta_resp.metadata[1][1][1]
    ELSE "part"

\* The file path resolution of passthrough mode: the key of the first part
\* of the first media of the first metadata entry of the response; None
\* when the call failed, the body did not parse or an entry is missing.
PartKey(meta_resp) ==
    IF meta_resp.kind = "json" /\ meta_resp.metadata # <<>>
         /\ meta_resp.metadata[1] # <<>> /\ meta_resp.metadata[1][1] # <<>>
    THEN meta_resp.metadata[1][1][1]
    ELSE None

\* Mutant: the file request carries the offset as well.
prepare_track_request_SeeksFile(is_passthrough, part_key, track_key, session_id, offset_ms) ==
    IF is_passthrough
    THEN IF part_key # None
         THEN [kind |-> "file", path |-> part_key,
               offset |-> offset_ms \div MS_PER_SEC]
         ELSE Absent
    ELSE [kind |-> "transcode", path |-> track_key,
          offset |-> offset_ms \div MS_PER_SEC, session |-> session_id]

\* Mutant: the file location is resolved first in both modes.
prepare_track_request_ResolvesFirst(is_passthrough, part_key, track_key, session_id, offset_ms) ==
    IF part_key = None
    THEN Absent
    ELSE IF is_passthrough
         THEN [kind |-> "file", path |-> part_key]
         ELSE [kind |-> "transcode", path |-> track_key,
               offset |-> offset_ms \div MS_PER_SEC, session |-> session_id]

\* prepare_track_request: the request built, or Absent
prepare_track_request(is_passthrough, part_key, track_key, session_id, offset_ms) ==
    IF is_passthrough
    THEN IF part_key # None
         THEN [kind |-> "file", path |-> part_key]
         ELSE Absent
    ELSE [kind |-> "transcode", path |-> track_key,
          offset |-> offset_ms \div MS_PER_SEC, session |-> session_id]

\* ------------------------------------------------------------------ state
IdleConn ==
    [pc |-> "idle", session_param |-> None, client_param |-> None,
     session_id |-> None, client_id |-> None,
     shuffle_mode |-> TRUE, initial_track_key |-> None, initial_offset_ms |-> 0,
     current_track_index |-> NoIndex, is_specific_request |-> FALSE,
     request |-> Absent, bytes_sent |-> 0, stream_elapsed |-> 0, sleep_left |-> 0,
     prev |-> "none", pick |-> None, inner_exit |-> None]

IdleNp == [pc |-> "idle", session_id |-> None, client_id |-> None, resp |-> Absent]

IdleSearch == [pc |-> "idle", query |-> <<>>, results |-> <<>>]

\* The stores as main() constructs them, before any request.
EmptyState ==
    /\ passthrough \in BOOLEAN
    /\ sessions = [s \in SessionIds |-> Absent]
    /\ history = [k \in ClientIds |-> <<>>]
    /\ sessions_lock = None
    /\ history_lock = None
    /\ resolved = [c \in Conns |-> Unresolved]
    /\ conn = [c \in Conns |-> IdleConn]
    /\ np = IdleNp
    /\ search = IdleSearch
    /\ played = [k \in ClientIds |-> <<>>]

\* main() before the library is fetched.
InitStartup ==
    /\ main = "fetch"
    /\ tracks = <<>>
    /\ EmptyState

\* Mutant: the emptiness check is missing.
CatalogCheck_Missing(fetched) == "serving"

\* if tracks.is_empty() { error!(...); return Ok(()); }
CatalogCheck(fetched) == IF Len(fetched) = 0 THEN "exited_ok" ELSE "serving"

\* fetch_library_tracks(...).await?: the library's tracks, or main returns
\* the error.
FetchLibraryTracks ==
    /\ main = "fetch"
    /\ \E fetched \in FetchResults :
          IF fetched.ok
          THEN main' = "loaded" /\ tracks' = fetched.tracks
          ELSE main' = "exited_err" /\ UNCHANGED tracks
    /\ UNCHANGED <<search, passthrough, history_lock, resolved, sessions, history,
                   sessions_lock, conn, np, played>>

\* The emptiness check; then the state is built, the router set up and the
\* listener bound.
StartServing ==
    /\ main = "loaded"
    /\ main' = CatalogCheck(tracks)
    /\ UNCHANGED <<tracks, search, passthrough, history_lock, resolved, sessions,
                   history, sessions_lock,
                   conn, np, played>>

\* The server is up, with the library of two tracks loaded.
Init ==
    /\ main = "serving"
    /\ tracks = Catalog
    /\ EmptyState

\* The track the connection's current iteration selected.
track(c) == TrackAt(conn[c].current_track_index)

\* Mutant: the guard leaves the entry in place.
GuardDrop_Keep(map, id) == map

\* SessionGuard::drop: map.remove(&self.id)
GuardDrop(map, id) == [map EXCEPT ![id] = Absent]

Live(c) == conn[c].pc \notin {"idle", "terminated", "disconnected"}

SetConn(c, r) == conn' = [conn EXCEPT ![c] = r]

\* ----------------------------------------------------- stream_radio steps
\* Mutant: an omitted session falls back to a fixed id.
SessionIdFor_Fixed(param, generated) == IF param # None THEN param ELSE "s1"

\* params.get("session").cloned().unwrap_or_else(|| format!("radio-{:x}", ...))
SessionIdFor(param, generated) == IF param # None THEN param ELSE generated

\* params.get("client_id").cloned().unwrap_or_else(|| "anon".to_string())
ClientIdFor(param) == IF param # None THEN param ELSE "anon"

\* A /radio request arrives and the stream is first polled: the locals are
\* bound and the guard is created.
Connect(c, params) ==
    /\ main = "serving"
    /\ conn[c].pc = "idle"
    /\ \E session \in params.session, generated \in GeneratedIds,
          client \in params.client_id, shuffle \in params.shuffle,
          key \in params.track, offset \in params.offset :
          SetConn(c, [IdleConn EXCEPT
              !.pc = "select",
              !.session_param = session,
              !.client_param = client,
              !.session_id = SessionIdFor(session, generated),
              !.client_id = ClientIdFor(client),
              !.initial_track_key = key,
              !.initial_offset_ms = offset,
              !.shuffle_mode = shuffle])
    /\ UNCHANGED <<main, tracks, search, passthrough, history_lock, resolved,
                   sessions, history, sessions_lock, np, played>>

\* Mutant: the shuffle flag is ignored once there is a cursor.
Picks_IgnoreShuffle(r) ==
    LET Random(specific) ==
            {[idx |-> i, specific |-> specific, how |-> "random"] : i \in TrackIndexes}
    IN  IF r.initial_track_key # None
        THEN IF Position(r.initial_track_key) # NoIndex
             THEN {[idx |-> Position(r.initial_track_key), specific |-> TRUE,
                    how |-> "explicit"]}
             ELSE Random(TRUE)
        ELSE IF r.current_track_index # NoIndex
             THEN {[idx |-> NextIndex(r.current_track_index),
                    specific |-> FALSE, how |-> "next"]}
             ELSE Random(FALSE)

\* Mutant: the substitute for a key the catalog lacks is an ordinary pick.
Picks_FallbackNotSpecific(r) ==
    LET Random(specific) ==
            {[idx |-> i, specific |-> specific, how |-> "random"] : i \in TrackIndexes}
    IN  IF r.initial_track_key # None
        THEN IF Position(r.initial_track_key) # NoIndex
             THEN {[idx |-> Position(r.initial_track_key), specific |-> TRUE,
                    how |-> "explicit"]}
             ELSE Random(FALSE)
        ELSE IF r.shuffle_mode
             THEN Random(FALSE)
             ELSE IF r.current_track_index # NoIndex
                  THEN {[idx |-> NextIndex(r.current_track_index),
                         specific |-> FALSE, how |-> "next"]}
                  ELSE Random(FALSE)

\* 1. Pick a track. The picks the code can make from the locals r: the
\* explicit key where the catalog has it, else rng.gen_range(0..len); in
\* shuffle mode gen_range; in sequential mode the index after the cursor,
\* or gen_range when there is no cursor yet.
Picks(r) ==
    LET Random(specific) ==
            {[idx |-> i, specific |-> specific, how |-> "random"] : i \in TrackIndexes}
    IN  IF r.initial_track_key # None
        THEN IF Position(r.initial_track_key) # NoIndex
             THEN {[idx |-> Position(r.initial_track_key), specific |-> TRUE,
                    how |-> "explicit"]}
             ELSE Random(TRUE)
        ELSE IF r.shuffle_mode
             THEN Random(FALSE)
             ELSE IF r.current_track_index # NoIndex
                  THEN {[idx |-> NextIndex(r.current_track_index),
                         specific |-> FALSE, how |-> "next"]}
                  ELSE Random(FALSE)

SelectTrack(c) ==
    /\ conn[c].pc = "select"
    /\ \E p \in Picks(conn[c]) :
          SetConn(c, [conn[c] EXCEPT !.pc = "build",
                                     !.initial_track_key = None,
                                     !.is_specific_request = p.specific,
                                     !.current_track_index = p.idx,
                                     !.pick = p.how])
    /\ resolved' = [resolved EXCEPT ![c] = Unresolved]
    /\ UNCHANGED <<main, tracks, search, passthrough, history_lock,
                   sessions, history, sessions_lock, np, played>>

\* The loop leaves by `break`: the generator returns and _guard is dropped.
\* The drop blocks while another handler holds the sessions mutex.
BreakLoop(c) ==
    /\ sessions_lock = None
    /\ SetConn(c, [conn[c] EXCEPT !.pc = "terminated", !.request = Absent])
    /\ sessions' = GuardDrop(sessions, conn[c].session_id)

\* Mutant: the retry follows at once, without the sleep.
BackoffAndRetry_NoSleep(c) ==
    /\ SetConn(c, [conn[c] EXCEPT !.pc = "sleep_retry", !.request = Absent,
                                  !.sleep_left = 0, !.prev = "failed",
                                  !.is_specific_request = FALSE, !.pick = None])
    /\ UNCHANGED sessions

\* tokio::time::sleep(Duration::from_secs(5)).await; continue;
BackoffAndRetry(c) ==
    /\ SetConn(c, [conn[c] EXCEPT !.pc = "sleep_retry", !.request = Absent,
                                  !.sleep_left = BACKOFF_MS, !.prev = "failed",
                                  !.is_specific_request = FALSE, !.pick = None])
    /\ UNCHANGED sessions

\* Mutant: a failed attempt always backs off and retries.
AttemptFailed_AlwaysRetry(c) == BackoffAndRetry(c)

\* Mutant: a failed attempt always ends the loop.
AttemptFailed_AlwaysBreak(c) == BreakLoop(c)

\* A failed attempt: if is_specific_request { break; } sleep; continue;
AttemptFailed(c) ==
    IF conn[c].is_specific_request THEN BreakLoop(c) ELSE BackoffAndRetry(c)

\* 2a. passthrough mode: the answer to GET /library/metadata/{key} arrives.
MetaCall(c) ==
    /\ conn[c].pc = "build"
    /\ passthrough
    /\ resolved[c] = Unresolved
    /\ \E meta_resp \in MetaResponses :
          resolved' = [resolved EXCEPT ![c] = meta_resp]
    /\ UNCHANGED <<main, tracks, search, passthrough, history_lock, conn,
                   sessions, history, sessions_lock, np, played>>

\* 2b. prepare_track_request returns: the request, or None and the attempt
\* has failed.  resolved keeps the part key the metadata answer gave.
BuildRequest(c) ==
    LET r == conn[c]
        part_key == PartKey(resolved[c])
        req == prepare_track_request(passthrough, part_key, track(c),
                                     r.session_id, r.initial_offset_ms)
    IN
    /\ r.pc = "build"
    /\ passthrough => resolved[c] # Unresolved
    /\ resolved' = [resolved EXCEPT ![c] =
                       IF passthrough
                       THEN [kind |-> "resolved", part_key |-> part_key]
                       ELSE Unresolved]
    /\ IF req # Absent
       THEN /\ SetConn(c, [r EXCEPT !.pc = "send", !.request = req])
            /\ UNCHANGED sessions
       ELSE AttemptFailed(c)
    /\ UNCHANGED <<main, tracks, search, passthrough, history_lock,
                   history, sessions_lock, np, played>>

\* Mutant: the session is published before the response is looked at.
SendFailed_Publishes(c) ==
    /\ conn[c].pc = "send"
    /\ ~conn[c].is_specific_request
    /\ SetConn(c, [conn[c] EXCEPT !.pc = "sleep_retry", !.request = Absent,
                                  !.sleep_left = BACKOFF_MS, !.prev = "failed",
                                  !.is_specific_request = FALSE, !.pick = None])
    /\ sessions' = [sessions EXCEPT ![conn[c].session_id] =
                       [track |-> track(c), started_ago |-> 0]]
    /\ UNCHANGED <<main, tracks, search, passthrough, history_lock, resolved,
                   history, sessions_lock, np, played>>

\* 3. request.send().await fails, or the status is not a success.
SendFailed(c) ==
    /\ conn[c].pc = "send"
    /\ AttemptFailed(c)
    /\ UNCHANGED <<main, tracks, search, passthrough, history_lock, resolved,
                   history, sessions_lock, np, played>>

\* Mutant: the relay starts on the response, before anything is published.
SendOk_RelaysFirst(c, plays) ==
    /\ conn[c].pc = "send"
    /\ Len(played[conn[c].client_id]) < plays
    /\ SetConn(c, [conn[c] EXCEPT !.pc = "stream", !.request = Absent])
    /\ UNCHANGED <<main, tracks, search, passthrough, history_lock, resolved,
                   sessions, history, sessions_lock, np, played>>

\* 3. request.send().await returns a success response.
SendOk(c, plays) ==
    /\ conn[c].pc = "send"
    /\ Len(played[conn[c].client_id]) < plays
    /\ SetConn(c, [conn[c] EXCEPT !.pc = "publish", !.request = Absent])
    /\ UNCHANGED <<main, tracks, search, passthrough, history_lock, resolved,
                   sessions, history, sessions_lock, np, played>>

\* Mutant: started_at is the time of the insert, whatever the offset.
PublishSession_NoShift(c) ==
    LET r == conn[c] IN
    /\ r.pc = "publish"
    /\ sessions_lock = None
    /\ sessions' = [sessions EXCEPT ![r.session_id] =
                       [track |-> track(c), started_ago |-> 0]]
    /\ SetConn(c, [r EXCEPT !.pc = "record"])
    /\ UNCHANGED <<main, tracks, search, passthrough, history_lock, resolved,
                   history, sessions_lock, np, played>>

\* Update session state: map.insert(session_id, (track, now - offset)).
PublishSession(c) ==
    LET r == conn[c] IN
    /\ r.pc = "publish"
    /\ sessions_lock = None
    /\ sessions' = [sessions EXCEPT ![r.session_id] =
                       [track |-> track(c),
                        started_ago |-> Min(r.initial_offset_ms, MaxAgeMs)]]
    /\ SetConn(c, [r EXCEPT !.pc = "record"])
    /\ UNCHANGED <<main, tracks, search, passthrough, history_lock, resolved,
                   history, sessions_lock, np, played>>

\* Mutant: the history lock is taken first and kept while the sessions
\* lock is requested for the write.
PublishHistory_NestsLocks(c) ==
    LET r == conn[c] IN
    /\ r.pc = "record"
    /\ \/ /\ history_lock = None
          /\ history_lock' = "stream_radio"
          /\ UNCHANGED <<history, played, conn>>
       \/ /\ history_lock = "stream_radio"
          /\ sessions_lock = None
          /\ history_lock' = None
          /\ history' = [history EXCEPT ![r.client_id] = RecordHistory(@, track(c))]
          /\ played' = [played EXCEPT ![r.client_id] = <<track(c)>> \o @]
          /\ SetConn(c, [r EXCEPT !.pc = "stream", !.bytes_sent = 0,
                                  !.stream_elapsed = 0])
    /\ UNCHANGED <<main, tracks, search, passthrough, resolved,
                   sessions, sessions_lock, np>>

\* Update history: insert at the front, pop past the limit; then the relay
\* starts (bytes_sent = 0, stream_start = now).
PublishHistory(c) ==
    LET r == conn[c] IN
    /\ r.pc = "record"
    /\ history_lock = None
    /\ history' = [history EXCEPT ![r.client_id] = RecordHistory(@, track(c))]
    /\ played' = [played EXCEPT ![r.client_id] = <<track(c)>> \o @]
    /\ SetConn(c, [r EXCEPT !.pc = "stream", !.bytes_sent = 0, !.stream_elapsed = 0])
    /\ UNCHANGED <<main, tracks, search, passthrough, history_lock, resolved,
                   sessions, sessions_lock, np>>

\* 4. Ok(bytes): bytes_sent += bytes.len(); yield bytes;
RelayChunk(c) ==
    LET r == conn[c] IN
    /\ r.pc = "stream"
    /\ \E n \in ChunkSizes :
          /\ r.bytes_sent + n <= MaxBytes
          /\ SetConn(c, [r EXCEPT !.bytes_sent = @ + n])
    /\ UNCHANGED <<main, tracks, search, passthrough, history_lock, resolved,
                   sessions, history, sessions_lock, np, played>>

\* The locals of the loop body go out of scope at the end of an iteration.
EndOfIteration(r) ==
    [r EXCEPT !.is_specific_request = FALSE, !.pick = None,
              !.bytes_sent = 0, !.stream_elapsed = 0, !.inner_exit = None]

\* After the inner loop, however it was left (how: "end" of the upstream
\* stream, or read "error"): the rapid-failure check, then the offset reset.
AfterStream(c, how) ==
    LET r == conn[c] IN
    IF FinishedTooQuickly(r.bytes_sent, r.stream_elapsed)
    THEN SetConn(c, [r EXCEPT !.pc = "sleep_short", !.sleep_left = BACKOFF_MS,
                              !.prev = "played", !.inner_exit = how])
    ELSE SetConn(c, [EndOfIteration(r) EXCEPT !.pc = "select", !.initial_offset_ms = 0,
                                              !.prev = "played"])

\* The upstream byte stream ends (next() yields None).
StreamEnd(c) ==
    /\ conn[c].pc = "stream"
    /\ AfterStream(c, "end")
    /\ UNCHANGED <<main, tracks, search, passthrough, history_lock, resolved,
                   sessions, history, sessions_lock, np, played>>

\* Mutant: a read error on the requested track ends the loop.
StreamError_BreaksOuter(c) ==
    /\ conn[c].pc = "stream"
    /\ IF conn[c].is_specific_request
       THEN /\ sessions_lock = None
            /\ SetConn(c, [conn[c] EXCEPT !.pc = "terminated", !.inner_exit = "error"])
            /\ sessions' = [sessions EXCEPT ![conn[c].session_id] = Absent]
       ELSE AfterStream(c, "error") /\ UNCHANGED sessions
    /\ UNCHANGED <<main, tracks, search, passthrough, history_lock, resolved,
                   history, sessions_lock, np, played>>

\* Err(e) while reading the upstream: break the inner loop.
StreamError(c) ==
    /\ conn[c].pc = "stream"
    /\ AfterStream(c, "error")
    /\ UNCHANGED <<main, tracks, search, passthrough, history_lock, resolved,
                   sessions, history, sessions_lock, np, played>>

\* The backoff sleep completes.
Wake(c) ==
    LET r == conn[c] IN
    /\ r.pc \in {"sleep_retry", "sleep_short"}
    /\ r.sleep_left = 0
    /\ IF r.pc = "sleep_short"
       THEN SetConn(c, [EndOfIteration(r) EXCEPT !.pc = "select",
                                                 !.initial_offset_ms = 0])
       ELSE SetConn(c, [r EXCEPT !.pc = "select"])
    /\ UNCHANGED <<main, tracks, search, passthrough, history_lock, resolved,
                   sessions, history, sessions_lock, np, played>>

\* Mutant: the stream is only dropped while it is yielding bytes.
Suspended_OnlyRelaying(c) == conn[c].pc = "stream"

\* The points at which the generator is suspended (.await / yield).
Suspended(c) ==
    \/ conn[c].pc \in {"send", "stream", "sleep_retry", "sleep_short"}
    \/ conn[c].pc = "build" /\ passthrough

\* Mutant: the guard also clears the history of the connection's client.
Disconnect_ForgetsHistory(c) ==
    /\ Suspended(c)
    /\ sessions_lock = None
    /\ SetConn(c, [IdleConn EXCEPT !.pc = "disconnected",
                                   !.session_param = conn[c].session_param,
                                   !.client_param = conn[c].client_param,
                                   !.session_id = conn[c].session_id,
                                   !.client_id = conn[c].client_id,
                                   !.sleep_left = conn[c].sleep_left])
    /\ sessions' = GuardDrop(sessions, conn[c].session_id)
    /\ history' = [history EXCEPT ![conn[c].client_id] = <<>>]
    /\ resolved' = [resolved EXCEPT ![c] = Unresolved]
    /\ UNCHANGED <<main, tracks, search, passthrough, history_lock,
                   sessions_lock, np, played>>

\* Mutant: a stream dropped inside a backoff sleep does not run the guard.
Disconnect_LeaksInSleep(c) ==
    /\ Suspended(c)
    /\ sessions_lock = None
    /\ SetConn(c, [IdleConn EXCEPT !.pc = "disconnected",
                                   !.session_param = conn[c].session_param,
                                   !.client_param = conn[c].client_param,
                                   !.session_id = conn[c].session_id,
                                   !.client_id = conn[c].client_id,
                                   !.sleep_left = conn[c].sleep_left])
    /\ sessions' = IF conn[c].pc \in {"sleep_retry", "sleep_short"}
                   THEN sessions
                   ELSE GuardDrop(sessions, conn[c].session_id)
    /\ resolved' = [resolved EXCEPT ![c] = Unresolved]
    /\ UNCHANGED <<main, tracks, search, passthrough, history_lock,
                   history, sessions_lock, np, played>>

\* The client goes away: the body stream is dropped where it is suspended,
\* and with it _guard.
Disconnect(c) ==
    /\ Suspended(c)
    /\ sessions_lock = None
    /\ SetConn(c, [IdleConn EXCEPT !.pc = "disconnected",
                                   !.session_param = conn[c].session_param,
                                   !.client_param = conn[c].client_param,
                                   !.session_id = conn[c].session_id,
                                   !.client_id = conn[c].client_id,
                                   !.sleep_left = conn[c].sleep_left])
    /\ sessions' = GuardDrop(sessions, conn[c].session_id)
    /\ resolved' = [resolved EXCEPT ![c] = Unresolved]
    /\ UNCHANGED <<main, tracks, search, passthrough, history_lock,
                   history, sessions_lock, np, played>>

\* ms milliseconds pass: every pending sleep comes nearer, every timestamp
\* taken (stream_start, started_at) grows older.
Tick(ms) ==
    /\ conn' = [c \in Conns |->
                  IF conn[c].pc \in {"sleep_retry", "sleep_short"}
                  THEN [conn[c] EXCEPT !.sleep_left = Max(0, @ - ms)]
                  ELSE IF conn[c].pc = "stream"
                  THEN [conn[c] EXCEPT !.stream_elapsed = Min(MaxElapsedMs, @ + ms)]
                  ELSE conn[c]]
    /\ sessions' = [s \in SessionIds |->
                      IF sessions[s] = Absent THEN Absent
                      ELSE [sessions[s] EXCEPT !.started_ago = Min(MaxAgeMs, @ + ms)]]
    /\ UNCHANGED <<main, tracks, search, passthrough, history_lock, resolved,
                   history, sessions_lock, np, played>>

\* ------------------------------------------------------ now_playing steps
\* Mutant: an id the map does not know is answered from another entry.
SessionGet_AnyEntry(map, id) ==
    IF id \in DOMAIN map /\ map[id] # Absent THEN map[id]
    ELSE IF \E s \in DOMAIN map : map[s] # Absent
         THEN map[CHOOSE s \in DOMAIN map : map[s] # Absent]
         ELSE Absent

\* sessions.get(session_id)
SessionGet(map, id) == IF id \in DOMAIN map THEN map[id] ELSE Absent

\* state.sessions.lock(); sessions.get(session_id): None answers 404.
NowPlayingLookup ==
    /\ main = "serving"
    /\ np.pc = "idle"
    /\ sessions_lock = None
    /\ \E session \in QueryIds, client \in ClientIds :
          IF SessionGet(sessions, session) = Absent
          THEN /\ np' = [pc |-> "done", session_id |-> session,
                         client_id |-> client, resp |-> [status |-> 404]]
               /\ UNCHANGED sessions_lock
          ELSE /\ np' = [pc |-> "locked", session_id |-> session,
                         client_id |-> client, resp |-> Absent]
               /\ sessions_lock' = "now_playing"
    /\ UNCHANGED <<main, tracks, search, passthrough, history_lock, resolved,
                   sessions, history, conn, played>>

\* started_at.elapsed().unwrap_or(Duration::from_secs(0)).as_millis(): the
\* age of the timestamp, 0 for a timestamp later than now
Elapsed(started_ago) == IF started_ago < 0 THEN 0 ELSE started_ago

\* state.history.lock(); the body is built and both guards are released.
NowPlayingHistory ==
    /\ np.pc = "locked"
    /\ history_lock = None
    /\ np' = [np EXCEPT !.pc = "done",
                        !.resp = [status |-> 200,
                                  key |-> SessionGet(sessions, np.session_id).track,
                                  elapsed |->
                                      Elapsed(SessionGet(sessions, np.session_id).started_ago),
                                  history |-> SkipFirst(history[np.client_id])]]
    /\ sessions_lock' = None
    /\ UNCHANGED <<main, tracks, search, passthrough, history_lock, resolved,
                   sessions, history, conn, played>>

\* The response is sent.
NowPlayingReturn ==
    /\ np.pc = "done"
    /\ np' = IdleNp
    /\ UNCHANGED <<main, tracks, search, passthrough, history_lock, resolved,
                   sessions, history, sessions_lock, conn, played>>

\* ----------------------------------------------------- search_tracks steps
\* GET /search?q=query is answered.
SearchRequest ==
    /\ main = "serving"
    /\ search.pc = "idle"
    /\ \E q \in Queries :
          search' = [pc |-> "done", query |-> q, results |-> search_tracks(tracks, q)]
    /\ UNCHANGED <<main, tracks, passthrough, history_lock, resolved, sessions,
                   history, sessions_lock,
                   conn, np, played>>

\* The response is sent.
SearchReturn ==
    /\ search.pc = "done"
    /\ search' = IdleSearch
    /\ UNCHANGED <<main, tracks, passthrough, history_lock, resolved, sessions,
                   history, sessions_lock,
                   conn, np, played>>

\* Every query-string combination of GET /radio.
AnyParams ==
    [session |-> SessionParams, client_id |-> ClientParams, shuffle |-> BOOLEAN,
     track |-> TrackParams, offset |-> OffsetParams]

\* One connection's step.
StreamRadio(c, params, plays) ==
    \/ Connect(c, params)
    \/ SelectTrack(c)
    \/ MetaCall(c)
    \/ BuildRequest(c)
    \/ SendFailed(c)
    \/ SendOk(c, plays)
    \/ PublishSession(c)
    \/ PublishHistory(c)
    \/ RelayChunk(c)
    \/ StreamEnd(c)
    \/ StreamError(c)
    \/ Wake(c)
    \/ Disconnect(c)

NowPlaying ==
    \/ NowPlayingLookup
    \/ NowPlayingHistory
    \/ NowPlayingReturn

\* One /radio connection with any parameters.
Next ==
    \/ StreamRadio(1, AnyParams, MaxPlays)
    \/ Tick(MS_PER_SEC)

Spec == Init /\ [][Next]_vars

\* Connections of one client (no client_id given), starting at a named
\* track or not, under a session id of their own choice or a generated one.
SharedParams ==
    [session |-> SessionParams, client_id |-> {None}, shuffle |-> {TRUE},
     track |-> {None, "k1"}, offset |-> {0}]

\* The same, always under the session id "s1".
FirstParams == [SharedParams EXCEPT !.session = {"s1"}]

\* Two concurrent connections, the second with the session id of the first
\* or with another; time passes a whole backoff interval at once.
NextShared ==
    \/ StreamRadio(1, FirstParams, MaxSharedPlays)
    \/ StreamRadio(2, SharedParams, MaxSharedPlays)
    \/ Tick(BACKOFF_MS)

SpecShared == Init /\ [][NextShared]_vars

\* One connection and the now_playing accessor polling it.
NextQuery ==
    \/ StreamRadio(1, SharedParams, MaxPlays)
    \/ Tick(BACKOFF_MS)
    \/ NowPlaying

SpecQuery == Init /\ [][NextQuery]_vars

\* One connection that plays on until the history limit is passed.
NextLong ==
    \/ StreamRadio(1, SharedParams, MaxLongPlays)
    \/ Tick(BACKOFF_MS)

SpecLong == Init /\ [][NextLong]_vars

\* main() from the fetch of the library on, and one /radio connection once
\* the server is up.
NextStartup ==
    \/ FetchLibraryTracks
    \/ StartServing
    \/ StreamRadio(1, AnyParams, MaxSharedPlays)
    \/ Tick(BACKOFF_MS)

SpecStartup == InitStartup /\ [][NextStartup]_vars

\* The server is up, with the library of the search loaded.
InitSearch ==
    /\ main = "serving"
    /\ tracks = Library
    /\ EmptyState

\* The search accessor over that library.
NextSearch ==
    \/ SearchRequest
    \/ SearchReturn

SpecSearch == InitSearch /\ [][NextSearch]_vars

\* One /radio connection under a timer that fires: time passes, and a sleep
\* that has run out returns.
NextLive ==
    \/ StreamRadio(1, AnyParams, MaxSharedPlays)
    \/ Tick(BACKOFF_MS)

SpecLive ==
    /\ Init
    /\ [][NextLive]_vars
    /\ WF_vars(Tick(BACKOFF_MS))
    /\ WF_vars(Wake(1))

\* A connection that may start at a seek offset, under the session id "s1".
SeekParams == [FirstParams EXCEPT !.offset = OffsetParams]

\* One such connection and the now_playing accessor polling it, second by
\* second.
NextSeek ==
    \/ StreamRadio(1, SeekParams, MaxSharedPlays)
    \/ Tick(MS_PER_SEC)
    \/ NowPlaying

SpecSeek == Init /\ [][NextSeek]_vars

\* ================================================================ claims
Ended(c) == conn[c].pc \in {"terminated", "disconnected"}

\* The step of connection c is a failed attempt of its current iteration.
InAttempt(c) == conn[c].pc \in {"build", "send"}

\* ---------------------------------------------------------------- C1
\* Another connection that has not ended uses the session id of c.
SharedWithLive(c) ==
    \E d \in Conns \ {c} : Live(d) /\ conn[d].session_id = conn[c].session_id

\* C1 as stated: once a connection has ended, however it ended, the Session
\* Store has no entry for its session id, whatever other connections do.
C1_EndedHasNoEntry ==
    \A c \in Conns : Ended(c) => sessions[conn[c].session_id] = Absent

\* C1 as amended: the step that ends a connection, on any path, leaves no
\* entry for its session id, and none appears afterwards unless another
\* connection that is still live uses the same session id.
C1_EndRemovesEntry ==
    [][\A c \in Conns :
          /\ (~Ended(c) /\ Ended(c)') => sessions'[conn'[c].session_id] = Absent
          /\ (Ended(c)' /\ ~SharedWithLive(c)')
                => sessions'[conn'[c].session_id] = Absent
      ]_vars

\* Both ways to end have happened, one of them on a connection that had
\* published a session entry, and the store is empty.
C1_Witness ==
    /\ \E c \in Conns : conn[c].pc = "disconnected"
    /\ \E c \in Conns : conn[c].pc = "terminated"
    /\ \E k \in ClientIds : played[k] # <<>>
    /\ \A s \in SessionIds : sessions[s] = Absent

\* ---------------------------------------------------------------- C2
\* C2: for every client id, after N recorded track starts the history list
\* holds exactly the min(N, 10) most recent of them, newest first.
C2_HistoryBound ==
    \A k \in ClientIds :
        /\ Len(history[k]) = Min(Len(played[k]), 10)
        /\ \A i \in 1 .. Len(history[k]) : history[k][i] = played[k][i]

\* The eleventh start has pushed the oldest entry out.
C2_Witness ==
    \E k \in ClientIds : Len(played[k]) = 11 /\ Len(history[k]) = 10

\* ---------------------------------------------------------------- C7
\* now_playing reads the history for a session and client of a connection
\* that is live.
AnswersLiveConnection ==
    /\ np.pc = "locked"
    /\ np'.pc = "done"
    /\ \E c \in Conns : /\ Live(c)
                        /\ conn[c].session_id = np.session_id
                        /\ conn[c].client_id = np.client_id

\* C7: whenever now_playing answers for the session and client of a
\* connection with a session entry, the first element of the client's
\* history is the session's current track.
C7_HistoryHeadIsCurrent ==
    [][AnswersLiveConnection
          => /\ history[np.client_id] # <<>>
             /\ Head(history[np.client_id]) = sessions[np.session_id].track
      ]_vars

\* ---------------------------------------------------------------- C8
\* C8: the history field of a now_playing answer is the stored history of
\* the client without its first element, the rest in the stored order.
C8_HistorySkipsFirst ==
    [][(np.pc = "locked" /\ np'.pc = "done")
          => LET stored == history[np.client_id]
             IN  /\ Len(np'.resp.history) = Max(Len(stored) - 1, 0)
                 /\ \A i \in 1 .. Len(np'.resp.history) :
                        np'.resp.history[i] = stored[i + 1]
      ]_vars

\* A stored history of three tracks was answered as its last two.
C8_Witness ==
    /\ np.pc = "done"
    /\ np.resp # Absent
    /\ np.resp.status = 200
    /\ Len(history[np.client_id]) = 3
    /\ np.resp.history = <<history[np.client_id][2], history[np.client_id][3]>>

\* ---------------------------------------------------------------- C3
\* C3: when the explicitly requested track is in the catalog and the first
\* iteration fails (no request built, transport error, non-success status),
\* the loop terminates: the attempt is followed by no backoff and no new
\* selection, the terminated loop takes no further step, and no byte was
\* relayed on the connection.
C3_SpecificFailureTerminates ==
    [][\A c \in Conns :
          /\ (InAttempt(c) /\ conn[c].pick = "explicit")
                => /\ conn'[c].pc \in {"build", "send", "publish",
                                       "terminated", "disconnected"}
                   /\ conn'[c].current_track_index = conn[c].current_track_index
                        \/ conn'[c].pc = "disconnected"
          /\ conn[c].pc = "terminated"
                => /\ conn'[c] = conn[c]
                   /\ conn[c].bytes_sent = 0
                   /\ conn[c].prev = "none"
                   /\ played[conn[c].client_id] = played'[conn[c].client_id]
      ]_vars

\* A connection that asked for a catalog track has terminated on its failure.
C3_Witness ==
    \E c \in Conns : conn[c].pc = "terminated" /\ conn[c].pick = "explicit"

\* ---------------------------------------------------------------- C4
\* C4: a failed non-specific attempt never ends the connection: it is
\* followed by a sleep of the full backoff, and the sleep by a new selection
\* only once it has run out; the same holds after any number of failures.
C4_NonSpecificFailureBacksOff ==
    [][\A c \in Conns :
          /\ (InAttempt(c) /\ ~conn[c].is_specific_request)
                => /\ conn'[c].pc \in {"build", "send", "publish",
                                       "sleep_retry", "disconnected"}
                   /\ conn'[c].pc = "sleep_retry" => conn'[c].sleep_left = BACKOFF_MS
          /\ conn[c].pc = "sleep_retry"
                => /\ conn'[c].pc \in {"sleep_retry", "select", "disconnected"}
                   /\ conn'[c].pc = "select" => conn[c].sleep_left = 0
      ]_vars

\* A second consecutive failure has just started its backoff.
C4_Witness ==
    \E c \in Conns : /\ conn[c].pc = "sleep_retry"
                     /\ conn[c].sleep_left = BACKOFF_MS
                     /\ conn[c].prev = "failed"
                     /\ conn[c].current_track_index # NoIndex

\* ---------------------------------------------------------------- C5
\* The selection step that follows a failed attempt.
RetrySelect(c) ==
    conn[c].pc = "select" /\ conn[c].prev = "failed" /\ conn'[c].pc = "build"

\* C5 as stated: after a failed non-specific attempt the retry is a random
\* pick over the whole catalog, in shuffle mode and in sequential mode alike.
C5_RetryIsRandomPick ==
    [][\A c \in Conns :
          RetrySelect(c) => /\ conn'[c].pick = "random"
                            /\ {p.idx : p \in Picks(conn[c])} = TrackIndexes
      ]_vars

\* C5 as amended: after a failed non-specific attempt the loop always comes
\* back through the selection step, never straight to a request; in shuffle
\* mode the retry is a random pick over the whole catalog, in sequential
\* mode it is the catalog index after the cursor.
C5_RetrySelectsAgain ==
    [][\A c \in Conns :
          /\ conn[c].pc = "sleep_retry"
                => conn'[c].pc \in {"sleep_retry", "select", "disconnected"}
          /\ RetrySelect(c)
                => IF conn[c].shuffle_mode
                   THEN /\ conn'[c].pick = "random"
                        /\ {p.idx : p \in Picks(conn[c])} = TrackIndexes
                   ELSE /\ conn'[c].pick = "next"
                        /\ conn'[c].current_track_index
                             = (conn[c].current_track_index + 1) % Len(tracks)
      ]_vars

\* A sequential connection has made its retry selection after a failure.
C5_Witness ==
    \E c \in Conns : /\ conn[c].pc = "build"
                     /\ conn[c].prev = "failed"
                     /\ ~conn[c].shuffle_mode
                     /\ conn[c].pick = "next"

\* ---------------------------------------------------------------- C6
\* C6: the seek offset handed to the request builder and used to shift
\* started_at is nonzero only in the first iteration of a connection; in
\* every later iteration it is 0, also when the first iteration failed.
C6_OffsetOnlyFirstIteration ==
    \A c \in Conns :
        (conn[c].pc \in {"build", "publish"} /\ conn[c].prev # "none")
            => conn[c].initial_offset_ms = 0

\* ---------------------------------------------------------------- C9
\* C9: in sequential mode every selection after the first of a connection
\* picks the catalog index after the previous one, modulo the catalog
\* length, whether the previous iteration played or failed and whether the
\* first track was requested explicitly.
C9_SequentialAdvances ==
    [][\A c \in Conns :
          (/\ conn[c].pc = "select"
           /\ conn'[c].pc = "build"
           /\ ~conn[c].shuffle_mode
           /\ conn[c].prev # "none")
              => /\ conn[c].current_track_index \in TrackIndexes
                 /\ conn'[c].current_track_index
                      = (conn[c].current_track_index + 1) % Len(tracks)
      ]_vars

\* A sequential connection has wrapped around to the first catalog track.
C9_Witness ==
    \E c \in Conns : /\ conn[c].pc = "build"
                     /\ ~conn[c].shuffle_mode
                     /\ conn[c].prev = "played"
                     /\ conn[c].current_track_index = 0
                     /\ Len(played[conn[c].client_id]) >= 2
                     /\ Len(tracks) > 1

\* ---------------------------------------------------------------- C10
\* C10: when the relay of a successfully started track ends, the loop
\* sleeps the full backoff if fewer than 1024 bytes were relayed or fewer
\* than 2 seconds passed, and selects at once otherwise; the sleep is
\* followed by the selection only once it has run out.
C10_ShortStreamBackoff ==
    [][\A c \in Conns :
          /\ (conn[c].pc = "stream" /\ conn'[c].pc \notin {"stream", "disconnected"})
                => IF conn[c].bytes_sent < 1024 \/ conn[c].stream_elapsed < 2000
                   THEN conn'[c].pc = "sleep_short" /\ conn'[c].sleep_left = 5000
                   ELSE conn'[c].pc = "select"
          /\ conn[c].pc = "sleep_short"
                => /\ conn'[c].pc \in {"sleep_short", "select", "disconnected"}
                   /\ conn'[c].pc = "select" => conn[c].sleep_left = 0
      ]_vars

\* A stream of 512 bytes that ended within a second has started its backoff.
C10_Witness ==
    \E c \in Conns : /\ conn[c].pc = "sleep_short"
                     /\ conn[c].sleep_left = 5000
                     /\ conn[c].bytes_sent = 512
                     /\ conn[c].stream_elapsed = 0

\* ---------------------------------------------------------------- C11
\* The step of connection c ends its current attempt in a failure.
AttemptFails(c) ==
    InAttempt(c) /\ conn'[c].pc \in {"sleep_retry", "terminated"}

\* C11: an iteration that ends in a failure leaves the Session
\* Store and the History Store as they were.
C11_FailureLeavesStores ==
    [][\A c \in Conns :
          AttemptFails(c) => sessions' = sessions /\ history' = history
      ]_vars

\* ---------------------------------------------------------------- C12
\* C12: a client disconnect is taken in one step from every state in which
\* the loop waits (relaying, awaiting the upstream, inside either backoff
\* sleep, whatever is left of it); that step ends the loop, and a
\* disconnected connection selects no track, issues no request and changes
\* nothing any more.
C12_DisconnectExits ==
    /\ [](\A c \in Conns :
             (\/ conn[c].pc \in {"send", "stream", "sleep_retry", "sleep_short"}
              \/ conn[c].pc = "build" /\ passthrough)
                => ENABLED Disconnect(c))
    /\ [][\A c \in Conns :
             /\ (conn[c].pc # "disconnected" /\ conn'[c].pc = "disconnected")
                   => /\ conn[c].pc \in {"build", "send", "stream",
                                         "sleep_retry", "sleep_short"}
                      /\ conn'[c].sleep_left = conn[c].sleep_left
                      /\ conn'[c].request = Absent
             /\ conn[c].pc = "disconnected"
                   => /\ conn'[c] = conn[c]
                      /\ played' = played
                      /\ history' = history
         ]_vars

\* The client went away two seconds into a backoff sleep; the remaining
\* three seconds were not waited for.
C12_Witness ==
    \E c \in Conns : /\ conn[c].pc = "disconnected"
                     /\ conn[c].sleep_left = BACKOFF_MS - 2 * MS_PER_SEC

\* ---------------------------------------------------------------- C13
\* The first selection of a connection whose ?track= names no catalog track.
SelectsForMissingKey(c) ==
    /\ conn[c].pc = "select"
    /\ conn'[c].pc = "build"
    /\ conn[c].initial_track_key # None
    /\ \A i \in 1 .. Len(tracks) : tracks[i] # conn[c].initial_track_key

\* C13: when the requested track id is not in the catalog, the selection
\* does not end the loop but picks any catalog track at random, marked as a
\* specific request; when the attempt at that substitute fails, the loop
\* terminates without backoff or a new selection.
C13_MissingKeyFallback ==
    [][\A c \in Conns :
          /\ SelectsForMissingKey(c)
                => /\ conn'[c].pick = "random"
                   /\ conn'[c].is_specific_request
                   /\ conn'[c].current_track_index \in 0 .. (Len(tracks) - 1)
                   /\ {p.idx : p \in Picks(conn[c])} = 0 .. (Len(tracks) - 1)
          /\ (InAttempt(c) /\ conn[c].pick = "random" /\ conn[c].prev = "none"
                /\ conn[c].is_specific_request)
                => /\ conn'[c].pc \in {"build", "send", "publish",
                                       "terminated", "disconnected"}
                   /\ AttemptFails(c) => conn'[c].pc = "terminated"
      ]_vars

\* The substitute for a missing track id failed at the upstream and the
\* loop has terminated.
C13_Witness ==
    \E c \in Conns : /\ conn[c].pc = "terminated"
                     /\ conn[c].pick = "random"
                     /\ conn[c].is_specific_request
                     /\ conn[c].current_track_index = 1

\* ---------------------------------------------------------------- C14
\* C14: now_playing answers not-found exactly when the Session Store has no
\* entry for the queried id at the time of the lookup (an id never used, an
\* omitted id, a connection that has not begun its first track or has
\* ended); otherwise it answers with the stored current track, which nobody
\* replaces in between; no other answer is given.
C14_NotFoundIffNoEntry ==
    [][/\ (np.pc = "idle" /\ np'.pc # "idle")
             => LET id == np'.session_id
                IN  IF id \in SessionIds /\ sessions[id] # Absent
                    THEN np'.pc = "locked"
                    ELSE np'.pc = "done" /\ np'.resp = [status |-> 404]
       /\ np.pc = "locked"
             => /\ sessions[np.session_id] # Absent
                /\ sessions'[np.session_id] # Absent
                /\ sessions'[np.session_id].track = sessions[np.session_id].track
                /\ np'.pc \in {"locked", "done"}
                /\ np'.pc = "done"
                      => /\ np'.resp.status = 200
                         /\ np'.resp.key = sessions[np.session_id].track
      ]_vars

\* The session of a connection still waiting for its first upstream
\* response was answered not-found.
C14_Witness ==
    /\ np.pc = "done"
    /\ np.resp = [status |-> 404]
    /\ \E c \in Conns : /\ conn[c].pc = "send"
                        /\ conn[c].prev = "none"
                        /\ conn[c].session_id = np.session_id
                        /\ played[conn[c].client_id] = <<>>

\* ---------------------------------------------------------------- C15
Exited == main \in {"exited_ok", "exited_err"}

\* C15: when the library comes back empty, main returns instead of serving;
\* a request handler runs only while the server is up, and then the catalog
\* is non-empty and stays what was loaded; once main has returned, nothing
\* is served.
C15_CatalogNonEmpty ==
    /\ [](/\ main = "serving" => Len(tracks) > 0
          /\ (\E c \in Conns : conn[c].pc # "idle")
                => main = "serving" /\ Len(tracks) > 0
          /\ Exited => \A c \in Conns : conn[c].pc = "idle")
    /\ [][/\ main \in {"loaded", "serving"} => tracks' = tracks
          /\ (main = "loaded" /\ Len(tracks) = 0) => main' \in {"loaded", "exited_ok"}
          /\ Exited => main' = main /\ conn' = conn
         ]_vars

\* The library was fetched empty and main has returned without serving.
C15_Witness ==
    /\ main = "exited_ok"
    /\ tracks = <<>>
    /\ \A c \in Conns : conn[c].pc = "idle"

\* ---------------------------------------------------------------- C16
\* C16 as stated: an identifier the request omitted is generated for the
\* connection, so no other live connection has the same one; this for the
\* session id and for the client id.
C16_OmittedIdsAreGenerated ==
    \A c \in Conns : \A d \in Conns \ {c} :
        (Live(c) /\ Live(d))
            => /\ conn[c].session_param = None
                    => conn[c].session_id # conn[d].session_id
               /\ conn[c].client_param = None
                    => conn[c].client_id # conn[d].client_id

\* C16 as amended: an omitted session is replaced by a generated id, which
\* no request supplied; an omitted client_id is replaced by the fixed id
\* "anon", the same for every connection; a supplied value is used as given.
C16_SessionGeneratedClientAnon ==
    \A c \in Conns :
        conn[c].pc # "idle"
            => /\ IF conn[c].session_param = None
                  THEN /\ conn[c].session_id \in GeneratedIds
                       /\ conn[c].session_id \notin SessionParams
                  ELSE conn[c].session_id = conn[c].session_param
               /\ IF conn[c].client_param = None
                  THEN conn[c].client_id = "anon"
                  ELSE conn[c].client_id = conn[c].client_param

\* Two live connections that both omitted client_id record into the one
\* history of "anon"; the second also omitted session and has a generated id.
C16_Witness ==
    /\ Live(1) /\ Live(2)
    /\ conn[1].client_param = None /\ conn[2].client_param = None
    /\ conn[1].client_id = "anon" /\ conn[2].client_id = "anon"
    /\ conn[2].session_param = None
    /\ conn[2].session_id \in GeneratedIds
    /\ Len(played["anon"]) = 2

\* ---------------------------------------------------------------- C17
\* The tracks whose title or artist contains the query, letter case aside,
\* in catalog order.
MatchesOf(q) ==
    LET Hit(t) == \/ Contains(to_lowercase(t.title), to_lowercase(q))
                  \/ Contains(to_lowercase(t.artist), to_lowercase(q))
    IN  SelectSeq(tracks, Hit)

\* C17: a query of fewer than 2 characters is answered with no track; a
\* longer one with the tracks whose title or artist contains it, letter
\* case aside, in catalog order, the first 50 of them at most.
C17_SearchFilter ==
    search.pc = "done"
        => IF Len(search.query) < 2
           THEN search.results = <<>>
           ELSE /\ Len(search.results) = Min(50, Len(MatchesOf(search.query)))
                /\ \A i \in 1 .. Len(search.results) :
                       search.results[i] = MatchesOf(search.query)[i]

\* ---------------------------------------------------------------- C18
\* C18: the loop terminates only in a failed attempt of a specific request,
\* which only the first iteration can be; no step of a non-specific
\* iteration terminates it, whatever the upstream answers; and a connection
\* that waits in a backoff after a failed attempt or a short or broken
\* stream comes to a new selection unless the client disconnects.
C18_LoopEndsOnlyTwoWays ==
    /\ [][\A c \in Conns :
             /\ (conn[c].pc # "terminated" /\ conn'[c].pc = "terminated")
                   => /\ InAttempt(c)
                      /\ conn[c].is_specific_request
                      /\ conn[c].prev = "none"
             /\ (Live(c) /\ ~conn[c].is_specific_request)
                   => conn'[c].pc # "terminated"
             /\ (Live(c) /\ ~Live(c)')
                   => conn'[c].pc \in {"terminated", "disconnected"}
         ]_vars
    /\ \A c \in Conns :
          (conn[c].pc \in {"sleep_retry", "sleep_short"})
             ~> (conn[c].pc \in {"select", "disconnected"})

\* After a failed attempt and its backoff the loop is at a new selection.
C18_Witness ==
    \E c \in Conns : /\ conn[c].pc = "select"
                     /\ conn[c].prev = "failed"
                     /\ conn[c].current_track_index # NoIndex
                     /\ conn[c].sleep_left = 0

\* ---------------------------------------------------------------- C19
\* C19: a step that leaves the relay of a track, the track requested by
\* ?track= or any other, never terminates the loop; after a read error the
\* relay of that track has stopped (no more of its bytes are sent, the
\* stores are left alone) and the loop goes on to the selection of the next
\* iteration, at once or after the backoff of a short stream.
C19_ReadErrorContinues ==
    [][\A c \in Conns :
          /\ conn[c].pc = "stream"
                => /\ conn'[c].pc \in {"stream", "sleep_short", "select", "disconnected"}
                   /\ conn'[c].pc \in {"sleep_short", "select"}
                         => conn'[c].prev = "played"
          /\ (conn[c].inner_exit # "error" /\ conn'[c].inner_exit = "error")
                => /\ conn[c].pc = "stream"
                   /\ conn'[c].pc = "sleep_short"
                   /\ conn'[c].bytes_sent = conn[c].bytes_sent
                   /\ sessions' = sessions
                   /\ history' = history
          /\ conn[c].inner_exit = "error"
                => /\ conn[c].pc = "sleep_short"
                   /\ conn'[c].pc \in {"sleep_short", "select", "disconnected"}
                   /\ conn'[c].pc = "select" => conn[c].sleep_left = 0
                   /\ conn'[c].bytes_sent \in {conn[c].bytes_sent, 0}
                   /\ history' = history
      ]_vars

\* The relay of the explicitly requested track broke after 512 bytes; the
\* loop is in its backoff, not terminated.
C19_Witness ==
    \E c \in Conns : /\ conn[c].pc = "sleep_short"
                     /\ conn[c].inner_exit = "error"
                     /\ conn[c].is_specific_request
                     /\ conn[c].pick = "explicit"
                     /\ conn[c].bytes_sent = 512

\* ---------------------------------------------------------------- C20
\* C20: a store lock is held for one read, update or insert on its store
\* and released with it; every such operation being one step, no handler,
\* loop or guard holds the Session Store lock from one step to the next:
\* not while it works on the other store, nor while it waits.
C20_LockHeldForOneOperation == sessions_lock = None

\* ---------------------------------------------------------------- C21
\* The iteration of connection c that published the entry of its session is
\* still running.
InPublishedIteration(c) == conn[c].pc \in {"record", "stream", "sleep_short"}

\* C21: the publish of a track that starts at seek offset o writes the
\* entry with an age of o; the age of an entry only grows with the time
\* that passes, by exactly that time; and now_playing reports the age the
\* entry has at the query, so at least o for the track of the iteration
\* that published it.
C21_ElapsedFromStartedAt ==
    [][/\ \A c \in Conns :
             (conn[c].pc = "publish" /\ conn'[c].pc = "record")
                => sessions'[conn[c].session_id]
                     = [track |-> TrackAt(conn[c].current_track_index),
                        started_ago |-> Min(conn[c].initial_offset_ms, MaxAgeMs)]
       /\ \A s \in SessionIds :
             (sessions[s] # Absent /\ sessions'[s] # Absent
                 /\ ~\E c \in Conns : conn[c].pc = "publish" /\ conn'[c].pc = "record")
                => /\ sessions'[s].track = sessions[s].track
                   /\ sessions'[s].started_ago
                         \in {sessions[s].started_ago,
                              Min(MaxAgeMs, sessions[s].started_ago + MS_PER_SEC)}
       /\ (np.pc = "locked" /\ np'.pc = "done")
             => /\ np'.resp.elapsed = sessions[np.session_id].started_ago
                /\ \A c \in Conns :
                      (InPublishedIteration(c) /\ conn[c].session_id = np.session_id)
                         => np'.resp.elapsed >= Min(conn[c].initial_offset_ms, MaxAgeMs)
      ]_vars

\* A track started at offset 2500 ms; a second later now_playing reported
\* the elapsed time (3000 ms, where the model stops counting).
C21_Witness ==
    /\ np.pc = "done"
    /\ np.resp.status = 200
    /\ np.resp.elapsed = MaxAgeMs
    /\ \E c \in Conns : /\ conn[c].pc = "stream"
                        /\ conn[c].initial_offset_ms = 2500
                        /\ conn[c].stream_elapsed = MS_PER_SEC
                        /\ conn[c].session_id = np.session_id

\* ---------------------------------------------------------------- C22
\* Another connection uses, or has used, the session id of c.
SessionIdReused(c) ==
    \E d \in Conns \ {c} :
        conn[d].pc # "idle" /\ conn[d].session_id = conn[c].session_id

\* C22 as stated: a connection that has relayed a byte of a track has that
\* track as the entry of its session id, whatever other connections do.
C22_RelayedTrackIsPublished ==
    \A c \in Conns :
        (conn[c].pc = "stream" /\ conn[c].bytes_sent > 0)
            => /\ sessions[conn[c].session_id] # Absent
               /\ sessions[conn[c].session_id].track = track(c)

\* C22 as amended: in every iteration the session entry is written first,
\* the history entry second, and only then is a byte of the track relayed;
\* a connection whose session id no other connection uses or has used has
\* the track it relays as the entry of that id.
C22_PublishedBeforeRelay ==
    /\ [][\A c \in Conns :
             /\ (conn[c].pc # "record" /\ conn'[c].pc = "record")
                   => /\ conn[c].pc = "publish"
                      /\ sessions'[conn[c].session_id] # Absent
                      /\ sessions'[conn[c].session_id].track = track(c)
                      /\ conn[c].bytes_sent = 0
             /\ (conn[c].pc # "stream" /\ conn'[c].pc = "stream")
                   => /\ conn[c].pc = "record"
                      /\ history'[conn[c].client_id] # <<>>
                      /\ Head(history'[conn[c].client_id]) = track(c)
                      /\ conn'[c].bytes_sent = 0
             /\ conn'[c].bytes_sent > conn[c].bytes_sent
                   => conn[c].pc = "stream" /\ conn'[c].pc = "stream"
         ]_vars
    /\ [](\A c \in Conns :
             (conn[c].pc = "stream" /\ ~SessionIdReused(c))
                => /\ sessions[conn[c].session_id] # Absent
                   /\ sessions[conn[c].session_id].track = track(c))

\* A connection has relayed 512 bytes of a track that its session entry
\* names, next to a live connection under another session id.
C22_Witness ==
    \E c \in Conns : \E d \in Conns \ {c} :
        /\ conn[c].pc = "stream"
        /\ conn[c].bytes_sent = 512
        /\ Live(d)
        /\ conn[d].session_id # conn[c].session_id
        /\ sessions[conn[c].session_id] # Absent
        /\ sessions[conn[c].session_id].track = track(c)

\* ---------------------------------------------------------------- C23
\* C23: in transcode mode the builder yields a request for every track,
\* session id and offset, whatever a metadata lookup would have answered:
\* the build step always leads to the send step, with the transcode request
\* for the selected track, it never takes the Absent branch (no store
\* change, no backoff, no end of the loop), and no file location is ever
\* resolved.
C23_TranscodeAlwaysBuilds ==
    /\ [][\A c \in Conns :
             (~passthrough /\ conn[c].pc = "build"
                /\ conn'[c].pc \notin {"build", "disconnected"})
                => /\ conn'[c].pc = "send"
                   /\ conn'[c].request =
                         [kind |-> "transcode", path |-> track(c),
                          offset |-> conn[c].initial_offset_ms \div MS_PER_SEC,
                          session |-> conn[c].session_id]
                   /\ sessions' = sessions
         ]_vars
    /\ [](~passthrough => \A c \in Conns : resolved[c] = Unresolved)

\* A transcode request with a seek offset of 2 seconds is about to be sent.
C23_Witness ==
    \E c \in Conns :
        /\ ~passthrough
        /\ conn[c].pc = "send"
        /\ conn[c].request # Absent
        /\ conn[c].request.kind = "transcode"
        /\ conn[c].request.offset = 2

\* ---------------------------------------------------------------- C24
\* The metadata answers that give no file location: a failed call, a body
\* that does not parse, or one without a metadata, media or part entry.
ResolutionFailed(meta_resp) ==
    \/ meta_resp.kind \in {"error", "unparsable"}
    \/ /\ meta_resp.kind = "json"
       /\ meta_resp.metadata \in {<<>>, <<(<<>>)>>, <<(<<(<<>>)>>)>>}

\* C24: in passthrough mode, when the metadata answer gives no file
\* location the builder returns Absent and the iteration sends nothing to
\* the upstream; a request is built only from a resolved first part key,
\* and is the request for that file.
C24_NoRequestWithoutFileKey ==
    /\ [][\A c \in Conns :
             (passthrough /\ conn[c].pc = "build" /\ resolved[c] # Unresolved
                /\ conn'[c].pc \notin {"build", "disconnected"})
                => IF ResolutionFailed(resolved[c])
                   THEN /\ conn'[c].pc \notin {"send", "publish", "record", "stream"}
                        /\ conn'[c].request = Absent
                        /\ resolved'[c] = [kind |-> "resolved", part_key |-> None]
                   ELSE /\ conn'[c].pc = "send"
                        /\ conn'[c].request = [kind |-> "file", path |-> "part"]
         ]_vars
    /\ [](\A c \in Conns :
             /\ (passthrough /\ conn[c].pc = "send")
                   => /\ resolved[c] = [kind |-> "resolved", part_key |-> "part"]
                      /\ conn[c].request = [kind |-> "file", path |-> "part"]
             /\ resolved[c] = [kind |-> "resolved", part_key |-> None]
                   => /\ conn[c].request = Absent
                      /\ conn[c].pc \notin {"send", "publish", "record", "stream"})

\* A passthrough connection waits out the backoff after a resolution that
\* found no file key.
C24_Witness ==
    \E c \in Conns :
        /\ passthrough
        /\ conn[c].pc = "sleep_retry"
        /\ conn[c].request = Absent
        /\ resolved[c] = [kind |-> "resolved", part_key |-> None]

\* ---------------------------------------------------------------- C25
\* C25: a step that ends a connection leaves every history as it was; a
\* history changes only when a connection records a play, which puts the
\* track in front of what that client's history held, whichever connection
\* recorded it; so a client's history is the list of all plays recorded
\* under its id, newest first, by ended and live connections alike.
C25_EndKeepsHistory ==
    /\ [][/\ \A c \in Conns :
               (Live(c) /\ ~Live(c)') => history' = history
          /\ history' # history
               => \E c \in Conns :
                     /\ conn[c].pc = "record" /\ conn'[c].pc = "stream"
                     /\ history' = [history EXCEPT ![conn[c].client_id] =
                                        Take(<<track(c)>> \o @, HISTORY_LIMIT)]
         ]_vars
    /\ [](\A k \in ClientIds : history[k] = Take(played[k], HISTORY_LIMIT))

\* One connection has ended and its session entry is gone; a connection of
\* the same client, in its first iteration, has recorded its track in front
\* of the play of the ended one.
C25_Witness ==
    \E c \in Conns : \E d \in Conns \ {c} :
        /\ Ended(c)
        /\ sessions[conn[c].session_id] = Absent
        /\ conn[d].client_id = conn[c].client_id
        /\ conn[d].pc = "stream"
        /\ conn[d].prev = "none"
        /\ Len(history[conn[d].client_id]) = 2
        /\ Head(history[conn[d].client_id]) = track(d)

\* ---------------------------------------------------------------- C26
\* C26: when two live connections use the same session id, the step that
\* ends one of them leaves in place the session entry of the other, which
\* is relaying a track.
C26_EndSparesSharedEntry ==
    [][\A c \in Conns : \A d \in Conns \ {c} :
          (conn[c].pc = "stream" /\ Live(d) /\ ~Live(d)'
             /\ sessions[conn[c].session_id] # Absent)
             => sessions'[conn[c].session_id] # Absent
      ]_vars

\* ---------------------------------------------------------------- C27
\* C27: in every reachable state, every session id that has an entry in
\* the Session Store is the session id of at least one connection that is
\* still live.
C27_NoLeakedEntry ==
    \A s \in SessionIds :
        sessions[s] # Absent
            => \E c \in Conns : Live(c) /\ conn[c].session_id = s

\* One of two connections under the same session id has ended, and the
\* entry of that id belongs to the other, which is relaying.
C27_Witness ==
    \E c \in Conns : \E d \in Conns \ {c} :
        /\ Ended(c)
        /\ conn[d].session_id = conn[c].session_id
        /\ conn[d].pc = "stream"
        /\ sessions[conn[d].session_id] # Absent
        /\ sessions[conn[d].session_id].track = track(d)

\* ---------------------------------------------------------------- C28
\* C28: the two store locks never deadlock.  now_playing takes the session
\* lock and, holding it, the history lock, which it always gets because the
\* history lock is never held across a step (so never while its holder
\* asks for the session lock); the session lock is held by now_playing only
\* and is given back by its next step; a streaming loop that is about to
\* write a store can do so as soon as the lock it needs is free.
C28_LocksNeverDeadlock ==
    /\ history_lock = None
    /\ sessions_lock # None
          => /\ sessions_lock = "now_playing"
             /\ np.pc = "locked"
    /\ np.pc = "locked"
          => /\ sessions_lock = "now_playing"
             /\ ENABLED NowPlayingHistory
    /\ \A c \in Conns :
          /\ (conn[c].pc = "publish" /\ sessions_lock = None)
                => ENABLED PublishSession(c)
          /\ conn[c].pc = "record" => ENABLED PublishHistory(c)
          /\ (Suspended(c) /\ sessions_lock = None) => ENABLED Disconnect(c)

\* now_playing holds the session lock and is about to take the history
\* lock while a streaming loop is about to write the history.
C28_Witness ==
    /\ np.pc = "locked"
    /\ sessions_lock = "now_playing"
    /\ \E c \in Conns : conn[c].pc = "record"

\* ---------------------------------------------------------------- C29
\* C29: for a live connection whose session id no other connection uses,
\* there is no entry before its first track has started, and from then on
\* the entry names the track it started last: the track just published, or
\* else the newest recorded play, also after that track has ended, inside
\* both backoff waits and after failed attempts at other tracks; an entry
\* changes its track only in the step that publishes a successful start.
C29_EntryNamesLastStarted ==
    /\ [](\A c \in Conns :
             (Live(c) /\ ~SessionIdReused(c))
                => IF conn[c].pc = "record"
                   THEN /\ sessions[conn[c].session_id] # Absent
                        /\ sessions[conn[c].session_id].track = track(c)
                   ELSE IF played[conn[c].client_id] # <<>>
                   THEN /\ sessions[conn[c].session_id] # Absent
                        /\ sessions[conn[c].session_id].track
                              = Head(played[conn[c].client_id])
                   ELSE sessions[conn[c].session_id] = Absent)
    /\ [][\A s \in SessionIds :
             (sessions[s] # Absent /\ sessions'[s] # Absent
                /\ sessions'[s].track # sessions[s].track)
                => \E c \in Conns : /\ conn[c].pc = "publish"
                                    /\ conn'[c].pc = "record"
                                    /\ conn[c].session_id = s
                                    /\ sessions'[s].track = track(c)
         ]_vars

\* A connection waits out the backoff after a failed attempt at one track
\* while its entry still names the other track, which it played before.
C29_Witness ==
    \E c \in Conns :
        /\ conn[c].pc = "sleep_retry"
        /\ conn[c].prev = "failed"
        /\ played[conn[c].client_id] # <<>>
        /\ track(c) # Head(played[conn[c].client_id])
        /\ sessions[conn[c].session_id] # Absent
        /\ sessions[conn[c].session_id].track = Head(played[conn[c].client_id])

\* ---------------------------------------------------------------- C30
\* C30: the request built in passthrough mode is the one the builder gives
\* for every other offset too, while the request built in transcode mode
\* carries the offset in whole seconds; in both modes the session entry is
\* published with its start shifted back by the offset.
C30_OffsetOnlyInTranscode ==
    [][\A c \in Conns :
          /\ (conn[c].pc = "build" /\ conn'[c].pc = "send")
                => IF passthrough
                   THEN \A o \in OffsetParams :
                           conn'[c].request =
                               prepare_track_request(TRUE, PartKey(resolved[c]),
                                                     track(c), conn[c].session_id, o)
                   ELSE /\ conn'[c].request.kind = "transcode"
                        /\ conn'[c].request.offset
                              = conn[c].initial_offset_ms \div MS_PER_SEC
          /\ (conn[c].pc = "publish" /\ conn'[c].pc = "record")
                => sessions'[conn[c].session_id].started_ago
                      = conn[c].initial_offset_ms
      ]_vars

\* In passthrough mode a track requested with offset 2500 ms has been
\* requested by its file path and published as started 2500 ms ago.
C30_Witness ==
    \E c \in Conns :
        /\ passthrough
        /\ conn[c].pc = "record"
        /\ conn[c].initial_offset_ms = 2500
        /\ resolved[c] = [kind |-> "resolved", part_key |-> "part"]
        /\ sessions[conn[c].session_id] # Absent
        /\ sessions[conn[c].session_id].started_ago = 2500

====
